---- MODULE Spec2Model ----
(***************************************************************************)
(* Model of the ICD MCP server: the WHO ICD-API client (token cache,       *)
(* authenticated GET with the 401 path) and the action dispatcher built    *)
(* on it.  A tool call is suspended only while it waits for the network:   *)
(* an action of the model runs the code between two network waits.         *)
(* The token endpoint and the classification service are the environment: *)
(* their replies are chosen nondeterministically when a reply is consumed. *)
(***************************************************************************)
EXTENDS Integers, Sequences, FiniteSets, TLC

\* ---------------------------------------------------------------- bounds
MaxTicks == 3        \* the clock advances at most this many seconds
MaxGets == 3         \* GETs one apiRequest call may issue before the model stops following it
MaxChildren == 2     \* longest child list an upstream entity declares
MaxHits == 2         \* longest hit list the search endpoint returns

\* ------------------------------------------------------ program constants
MarginSec == 300     \* safety margin subtracted from expires_in
MsPerSec == 1000     \* seconds to milliseconds
ChildCap == 20       \* children resolved per children listing
DefaultMaxResults == 10

\* ------------------------------------------------------------ value sets
Procs == {"p1", "p2"}            \* concurrently served tool calls
Tokens == {"t1", "t2"}           \* access_token strings the token endpoint hands out
Lifetimes == {299, 300, 302}     \* expires_in values (seconds) the token endpoint reports
Null == "null"                   \* JavaScript null
Undefined == "undefined"         \* JavaScript undefined (an omitted optional field)
NoError == "none"                \* no exception pending

\* Variant: only null counts as missing.
FalsyNullOnly(s) == s = Null

Falsy(s) == s \in {Null, Undefined, ""}

Min(a, b) == IF a < b THEN a ELSE b
Max(a, b) == IF a < b THEN b ELSE a

\* Error messages thrown by the client.
AuthFailedMsg == "Authentication failed"
RateLimitMsg == "Rate limit exceeded. Please try again later."
ApiFailedMsg(status) == "API request failed: " \o ToString(status)
FetchFailedMsg == "fetch failed"

VARIABLES
    accessToken,   \* WHOICDClient.accessToken
    tokenExpiry,   \* WHOICDClient.tokenExpiry (ms)
    now,           \* Date.now() (ms)
    issued,        \* history: token strings the token endpoint has returned to this client
    prior,         \* history: token strings returned to the clients of earlier /mcp requests
    pc,            \* per tool call: the suspension point it is parked at
    req,           \* per tool call: the ICDParams of the invocation
    kind,          \* per tool call: which client method issued the apiRequest in flight
    tok,           \* per tool call: apiRequest's local `token`
    err,           \* per tool call: the exception apiRequest ended with
    body,          \* per tool call: the JSON apiRequest returned
    gets,          \* per apiRequest call: GETs issued
    auths,         \* per apiRequest call: token requests issued
    cached,        \* per apiRequest call: the unexpired token cached when the call was made, else Null
    status,        \* per apiRequest call: response.status of the last GET reply consumed
    net,           \* per invocation: an outbound network call has been made
    entity,        \* per tool call: the entity resolved for lookup / children
    idx,           \* per tool call: loop position in chapter / child resolution
    acc,           \* per tool call: the list being collected
    result         \* per tool call: how the last handleAction invocation ended

clientVars == <<accessToken, tokenExpiry, issued>>
callVars == <<kind, tok, err, body, gets, auths, cached, status>>
handlerVars == <<req, net, entity, idx, acc, result>>
vars == <<accessToken, tokenExpiry, now, issued, prior, pc, req, kind, tok, err, body,
          gets, auths, cached, status, net, entity, idx, acc, result>>

\* ------------------------------------------------------------- requests
Req(a, c, q, v, ch, m, pth) ==
    [action |-> a, code |-> c, query |-> q, version |-> v, chapter |-> ch,
     max_results |-> m, path |-> pth]

Codes == {Undefined, "", "BA00"}
Queries == {Undefined, "", "flu"}
Versions == {Undefined, "10", "11"}
Chapters == {Undefined, "05"}
Paths == {Undefined, "", "mms", "/mms"}
MaxResultsIn == {<<>>, <<0>>, <<1>>, <<-1>>}     \* <<>> is an omitted max_results

LookupRequests == {Req("lookup", c, Undefined, v, Undefined, <<>>, Undefined) : c \in Codes, v \in Versions}
ChildrenRequests == {Req("children", c, Undefined, v, Undefined, <<>>, Undefined) : c \in Codes, v \in Versions}
ChaptersRequests == {Req("chapters", Undefined, Undefined, v, Undefined, <<>>, Undefined) : v \in Versions}
SearchRequests ==
    UNION {{Req("search", Undefined, q, v, ch, m, Undefined) : q \in Queries, v \in Versions} :
           ch \in Chapters, m \in MaxResultsIn}
ApiRequests == {Req("api", Undefined, Undefined, Undefined, Undefined, <<>>, pth) : pth \in Paths}
OtherRequests == {Req(a, Undefined, Undefined, Undefined, Undefined, <<>>, Undefined) : a \in {"help", "unknown"}}
Requests == LookupRequests \cup ChildrenRequests \cup ChaptersRequests \cup SearchRequests
            \cup ApiRequests \cup OtherRequests
NoReq == Req("", Undefined, Undefined, Undefined, Undefined, <<>>, Undefined)

\* -------------------------------------------------------------- results
\* How an invocation of handleAction ended: a returned ToolResult, or an
\* exception that left handleAction ("throw").
NoResult == [how |-> "none", isError |-> FALSE, text |-> ""]
Return(isErr, txt) == [how |-> "return", isError |-> isErr, text |-> txt]
Escapes(msg) == [how |-> "throw", isError |-> FALSE, text |-> msg]

\* JSON bodies of the classification service, reduced to the fields the code reads.
\* child: <<>> when the field is absent, <<n>> for a list of n child URIs.
\* A raw `title` is absent, null, a string, or an object that may carry the
\* keys "@value" and "value" (Undefined for a key the object lacks).
TitleAbsent == [type |-> "undefined", str |-> "", atValue |-> Undefined, value |-> Undefined]
TitleNull == [type |-> "null", str |-> "", atValue |-> Undefined, value |-> Undefined]
TitleString(x) == [type |-> "string", str |-> x, atValue |-> Undefined, value |-> Undefined]
TitleObject(a, v) == [type |-> "object", str |-> "", atValue |-> a, value |-> v]
RawTitles ==
    {TitleAbsent, TitleNull} \cup {TitleString(x) : x \in {"", "Cholera"}}
    \cup {TitleObject(a, v) : a \in {Undefined, "", "Cholera"}, v \in {Undefined, "", "Cholera"}}

NoBody == [stemId |-> FALSE, child |-> <<>>, hits |-> 0, title |-> TitleAbsent,
           code |-> Undefined, theCode |-> Undefined, codeRange |-> Undefined]
ChildShapes == {<<>>} \cup {<<n>> : n \in 0..MaxChildren}
Bodies(k) ==
    CASE k = "codeinfo" -> {[NoBody EXCEPT !.stemId = b] : b \in BOOLEAN}
      [] k \in {"code10", "entity", "root"} -> {[NoBody EXCEPT !.child = c] : c \in ChildShapes}
      [] k = "search" -> {[NoBody EXCEPT !.hits = h] : h \in 0..MaxHits}
      [] OTHER -> {NoBody}

\* Entity JSON as parseEntity may be handed it.
RawBodies ==
    {[NoBody EXCEPT !.child = c, !.title = t, !.code = k, !.theCode = tc, !.codeRange = cr] :
        c \in ChildShapes, t \in RawTitles, k \in {Undefined, "BA00"},
        tc \in {Undefined, "1A00"}, cr \in {Undefined, "A00-B99"}}

\* An entity as parseEntity returns it, reduced to code, title and
\* children; NoEntity is null.
NoEntity == [found |-> FALSE, children |-> <<>>, code |-> "", title |-> ""]

TypeOK ==
    /\ accessToken \in Tokens \cup {Null}
    /\ tokenExpiry \in Int
    /\ now \in 0..((MaxTicks + 1) * MsPerSec)
    /\ issued \subseteq Tokens
    /\ prior \subseteq Tokens
    /\ pc \in [Procs -> {"idle", "auth_wait", "get_wait", "returned"}]
    /\ \A p \in Procs : req[p] \in Requests \cup {NoReq}
    /\ \A p \in Procs : tok[p] \in Tokens \cup {Null, Undefined}
    /\ gets \in [Procs -> 0..(MaxGets + 1)]
    /\ auths \in [Procs -> 0..(MaxGets + 2)]
    /\ net \in [Procs -> BOOLEAN]

Init ==
    /\ accessToken = Null
    /\ tokenExpiry = 0
    /\ now = 0
    /\ issued = {}
    /\ prior = {}
    /\ pc = [p \in Procs |-> "idle"]
    /\ req = [p \in Procs |-> NoReq]
    /\ kind = [p \in Procs |-> ""]
    /\ tok = [p \in Procs |-> Undefined]
    /\ err = [p \in Procs |-> NoError]
    /\ body = [p \in Procs |-> NoBody]
    /\ gets = [p \in Procs |-> 0]
    /\ auths = [p \in Procs |-> 0]
    /\ cached = [p \in Procs |-> Null]
    /\ status = [p \in Procs |-> 0]
    /\ net = [p \in Procs |-> FALSE]
    /\ entity = [p \in Procs |-> NoEntity]
    /\ idx = [p \in Procs |-> 0]
    /\ acc = [p \in Procs |-> <<>>]
    /\ result = [p \in Procs |-> NoResult]

\* ------------------------------------------------------------ the client
\* Variant: the token is still used at the instant of its recorded expiry.
NeedsAuthAfterExpiry(at) == Falsy(at) \/ now > tokenExpiry

\* Variant: only the expiry is tested, not the presence of a token.
NeedsAuthExpiryOnly(at) == now >= tokenExpiry

\* ensureToken's test: no token, or the recorded expiry has been reached.
NeedsAuth(at) == Falsy(at) \/ now >= tokenExpiry

\* authenticate's bookkeeping on a successful token reply.
ExpiryFor(expires_in) == now + (expires_in - MarginSec) * MsPerSec

\* apiRequest(endpoint) up to its first network suspension.  ensureToken
\* either starts the token POST, and the call parks on it, or resolves with
\* the cached token, and apiRequest issues the GET with it and parks on that.
\* `at` is accessToken as this call sees it; `st` is 0 for a call made by a
\* client method, and for the recursive call the status of the reply that
\* led to it.
CallApi(p, k, at, st) ==
    LET need == NeedsAuth(at)
        fresh == st = 0
    IN
    /\ kind' = [kind EXCEPT ![p] = k]
    /\ pc' = [pc EXCEPT ![p] = IF need THEN "auth_wait" ELSE "get_wait"]
    /\ tok' = [tok EXCEPT ![p] = IF need THEN Undefined ELSE at]
    /\ auths' = [auths EXCEPT ![p] = (IF fresh THEN 0 ELSE @) + (IF need THEN 1 ELSE 0)]
    /\ gets' = [gets EXCEPT ![p] = (IF fresh THEN 0 ELSE @) + (IF need THEN 0 ELSE 1)]
    /\ cached' = [cached EXCEPT ![p] =
                    IF ~fresh THEN @
                    ELSE IF at \in Tokens /\ now < tokenExpiry THEN at ELSE Null]
    /\ status' = [status EXCEPT ![p] = st]
    /\ err' = [err EXCEPT ![p] = NoError]
    /\ body' = [body EXCEPT ![p] = NoBody]
    /\ net' = [net EXCEPT ![p] = TRUE]

\* apiRequest ends: its promise settles with an exception (e) or a body (b).
EndCall(p, e, b) ==
    /\ pc' = [pc EXCEPT ![p] = "returned"]
    /\ err' = [err EXCEPT ![p] = e]
    /\ body' = [body EXCEPT ![p] = b]

\* The token endpoint answers 2xx with {access_token, expires_in}:
\* authenticate stores the token and its expiry, ensureToken returns
\* this.accessToken, apiRequest issues the GET with it.
AuthReplyOk(p) ==
    /\ pc[p] = "auth_wait"
    /\ \E t \in Tokens, e \in Lifetimes :
        /\ accessToken' = t
        /\ tokenExpiry' = ExpiryFor(e)
        /\ issued' = issued \cup {t}
    /\ tok' = [tok EXCEPT ![p] = accessToken']
    /\ gets' = [gets EXCEPT ![p] = @ + 1]
    /\ pc' = [pc EXCEPT ![p] = "get_wait"]
    /\ UNCHANGED <<now, prior, kind, err, body, auths, cached, status, handlerVars>>

\* The token endpoint answers with a non-success status.
AuthReplyRejected(p) ==
    /\ pc[p] = "auth_wait"
    /\ EndCall(p, AuthFailedMsg, NoBody)
    /\ UNCHANGED <<now, prior, clientVars, kind, tok, gets, auths, cached, status, handlerVars>>

\* The token POST fails in transport: fetch rejects.
AuthTransportFailure(p) ==
    /\ pc[p] = "auth_wait"
    /\ EndCall(p, FetchFailedMsg, NoBody)
    /\ UNCHANGED <<now, prior, clientVars, kind, tok, gets, auths, cached, status, handlerVars>>

\* Statuses the classification service answers a GET with.
Statuses == {200, 401, 404, 429, 500}

\* Variant: a rate-limited GET is re-issued as well.
IsUnauthorizedOr429(st) == st \in {401, 429}

\* response.status === 401
IsUnauthorized(st) == st = 401

\* The GET is answered 401: drop the cached token and call apiRequest again.
GetReply401(p) ==
    /\ pc[p] = "get_wait"
    /\ gets[p] < MaxGets
    /\ accessToken' = Null
    /\ \E st \in {x \in Statuses : IsUnauthorized(x)} :
        CallApi(p, kind[p], Null, st)
    /\ UNCHANGED <<now, prior, tokenExpiry, issued, req, entity, idx, acc, result>>

\* The GET is answered 429 or another non-success status: apiRequest throws.
GetReplyError(p) ==
    /\ pc[p] = "get_wait"
    /\ \E st \in {x \in Statuses : ~IsUnauthorized(x) /\ x # 200} :
        /\ status' = [status EXCEPT ![p] = st]
        /\ EndCall(p, IF st = 429 THEN RateLimitMsg ELSE ApiFailedMsg(st), NoBody)
    /\ UNCHANGED <<now, prior, clientVars, kind, tok, gets, auths, cached, handlerVars>>

\* The GET fails in transport: fetch rejects.
GetTransportFailure(p) ==
    /\ pc[p] = "get_wait"
    /\ EndCall(p, FetchFailedMsg, NoBody)
    /\ UNCHANGED <<now, prior, clientVars, kind, tok, gets, auths, cached, status, handlerVars>>

\* The GET is answered 200: apiRequest returns the parsed JSON.
GetReplyOk(p) ==
    /\ pc[p] = "get_wait"
    /\ status' = [status EXCEPT ![p] = 200]
    /\ \E b \in Bodies(kind[p]) : EndCall(p, NoError, b)
    /\ UNCHANGED <<now, prior, clientVars, kind, tok, gets, auths, cached, handlerVars>>

\* -------------------------------------------------------- the dispatcher
NotFoundText(v, c) ==
    "ICD-" \o v \o " code '" \o c \o "' not found. Try searching: {\"action\": \"search\"}"
EntityText(v) == "**code**: title _ICD-" \o v \o "_"
NoChildrenText(c) == "No child codes found for '" \o c \o "'. This may be a leaf-level code."
ChildrenText(c, v, list) == "**Child codes under " \o c \o " (ICD-" \o v \o "):** " \o ToString(list)
NoChaptersText(v) == "Could not retrieve ICD-" \o v \o " chapters."
ChaptersText(v, list) == "**ICD-" \o v \o " Chapters:** " \o ToString(list)
NoResultsText(q) == "No ICD-11 codes found for '" \o q \o "'. Try different search terms."
SearchText(q, list) == "**ICD-11 Search Results for '" \o q \o "':** " \o ToString(list)
Icd10SearchText == "ICD-10 search is not supported by the WHO API. Use ICD-11 search or lookup by code."
HelpText == "# ICD MCP Server"
UnknownActionText(a) == "Unknown action: " \o a
PathMustStartText == "Path must start with /"
ApiJsonText == "{}"
ApiErrorText(msg) == "API Error: " \o msg

\* Variant: the exception is thrown on to the caller.
HandleActionRethrow(msg) == Escapes(msg)

\* The catch clause of handleAction.
HandleActionCatch(msg) == Return(TRUE, "Error: " \o msg)

\* Variant: any non-empty path is accepted.
StartsWithAnything(path) == Len(path) > 0

\* path.startsWith("/")
StartsWithSlash(path) == Len(path) > 0 /\ SubSeq(path, 1, 1) = "/"

\* Variant: the version selector is ignored.
VersionIgnored(r) == "11"

\* params.version || "11"
VersionOf(r) == IF Falsy(r.version) THEN "11" ELSE r.version

\* params.max_results || 10
MaxResultsOf(r) ==
    IF r.max_results = <<>> \/ r.max_results = <<0>> THEN DefaultMaxResults ELSE r.max_results[1]

\* Array.prototype.slice(0, end)
Slice0(s, end) ==
    LET e == IF end < 0 THEN Max(Len(s) + end, 0) ELSE Min(end, Len(s))
    IN SubSeq(s, 1, e)

\* The synchronous part of handleAction: the switch, the required-field
\* checks and handleApi's path check.  call = "" when the invocation ends
\* without reaching the client, else the client request it starts with.
Dispatch(r) ==
    LET Done(res) == [call |-> "", res |-> res]
        Call(k) == [call |-> k, res |-> NoResult]
        CodeCall == IF VersionOf(r) = "10" THEN "code10" ELSE "codeinfo"
    IN CASE r.action = "lookup" ->
              IF Falsy(r.code) THEN Done(HandleActionCatch("code required for lookup"))
              ELSE Call(CodeCall)
         [] r.action = "search" ->
              IF Falsy(r.query) THEN Done(HandleActionCatch("query required for search"))
              ELSE IF VersionOf(r) = "10" THEN Done(Return(TRUE, Icd10SearchText))
              ELSE Call("search")
         [] r.action = "chapters" -> Call("root")
         [] r.action = "children" ->
              IF Falsy(r.code) THEN Done(HandleActionCatch("code required for children"))
              ELSE Call(CodeCall)
         [] r.action = "api" ->
              IF Falsy(r.path) THEN Done(HandleActionCatch("path required for api"))
              ELSE IF ~StartsWithSlash(r.path) THEN Done(Return(TRUE, PathMustStartText))
              ELSE Call("api")
         [] r.action = "help" -> Done(Return(FALSE, HelpText))
         [] OTHER -> Done(Return(TRUE, UnknownActionText(r.action)))

\* handleAction returns (or its promise settles) with res; the frames of
\* the client call it was built on are gone.
Finish(p, res) ==
    /\ pc' = [pc EXCEPT ![p] = "idle"]
    /\ result' = [result EXCEPT ![p] = res]
    /\ tok' = [tok EXCEPT ![p] = Undefined]
    /\ body' = [body EXCEPT ![p] = NoBody]
    /\ gets' = [gets EXCEPT ![p] = 0]
    /\ auths' = [auths EXCEPT ![p] = 0]
    /\ cached' = [cached EXCEPT ![p] = Null]
    /\ status' = [status EXCEPT ![p] = 0]

\* handleAction(params, client) is invoked with params = r.
Start(p, r) ==
    /\ pc[p] = "idle"
    /\ req' = [req EXCEPT ![p] = r]
    /\ entity' = [entity EXCEPT ![p] = NoEntity]
    /\ idx' = [idx EXCEPT ![p] = 0]
    /\ acc' = [acc EXCEPT ![p] = <<>>]
    /\ LET d == Dispatch(r) IN
        IF d.call = ""
        THEN /\ Finish(p, d.res)
             /\ net' = [net EXCEPT ![p] = FALSE]
             /\ kind' = [kind EXCEPT ![p] = ""]
             /\ err' = [err EXCEPT ![p] = NoError]
        ELSE /\ result' = [result EXCEPT ![p] = NoResult]
             /\ CallApi(p, d.call, accessToken, 0)
    /\ UNCHANGED <<now, prior, clientVars>>

\* handleApi resumes after `await client.apiRequest(path)`.
ApiReturn(p) ==
    /\ pc[p] = "returned" /\ kind[p] = "api"
    /\ Finish(p, IF err[p] = NoError THEN Return(FALSE, ApiJsonText)
                 ELSE Return(TRUE, ApiErrorText(err[p])))
    /\ UNCHANGED <<now, prior, clientVars, kind, err, req, net, entity, idx, acc>>

\* searchICD11 resumes after its apiRequest; handleSearch renders the list.
\* An exception passes through both to handleAction's catch.
SearchReturn(p) ==
    /\ pc[p] = "returned" /\ kind[p] = "search"
    /\ LET entities == [i \in 1..body[p].hits |-> i]
           results == Slice0(entities, MaxResultsOf(req[p]))
       IN IF err[p] # NoError
          THEN /\ Finish(p, HandleActionCatch(err[p]))
               /\ acc' = acc
          ELSE /\ acc' = [acc EXCEPT ![p] = results]
               /\ Finish(p, IF Len(results) = 0 THEN Return(FALSE, NoResultsText(req[p].query))
                            ELSE Return(FALSE, SearchText(req[p].query, results)))
    /\ UNCHANGED <<now, prior, clientVars, kind, err, req, net, entity, idx>>

\* JSON.stringify of a title object.
JsonStringify(t) ==
    LET a == IF t.atValue = Undefined THEN "" ELSE "\"@value\":\"" \o t.atValue \o "\""
        v == IF t.value = Undefined THEN "" ELSE "\"value\":\"" \o t.value \o "\""
        sep == IF t.atValue # Undefined /\ t.value # Undefined THEN "," ELSE ""
    IN "{" \o a \o sep \o v \o "}"

\* Variant: the final `|| ""` is missing, String() is applied to the raw value.
ParseTitleNoDefault(t) ==
    CASE t.type = "object" -> IF Falsy(t.atValue) THEN JsonStringify(t) ELSE t.atValue
      [] t.type = "string" -> t.str
      [] OTHER -> t.type

\* parseEntity's title: an object is replaced by its "@value", or by its
\* JSON text when that is missing or empty; then String(title || "").
ParseTitle(t) ==
    CASE t.type = "object" -> IF Falsy(t.atValue) THEN JsonStringify(t) ELSE t.atValue
      [] t.type = "string" -> t.str
      [] OTHER -> ""

\* parseEntity's code: data.code || data.theCode || data.codeRange || "".
ParseCode(b) ==
    IF ~Falsy(b.code) THEN b.code
    ELSE IF ~Falsy(b.theCode) THEN b.theCode
    ELSE IF ~Falsy(b.codeRange) THEN b.codeRange
    ELSE ""

\* parseEntity, reduced to code, title and children.
ParseEntity(b) ==
    [found |-> TRUE, children |-> b.child, code |-> ParseCode(b), title |-> ParseTitle(b.title)]

\* handleLookup's rendering of what getICD10Code / getICD11Code returned.
HandleLookupResult(r, ent) ==
    IF ~ent.found THEN Return(FALSE, NotFoundText(VersionOf(r), r.code))
    ELSE Return(FALSE, EntityText(VersionOf(r)))

\* handleChildren's rendering of the list getICD10Children / getICD11Children returned.
HandleChildrenResult(r, list) ==
    IF Len(list) = 0 THEN Return(FALSE, NoChildrenText(r.code))
    ELSE Return(FALSE, ChildrenText(r.code, VersionOf(r), list))

\* handleChapters's rendering of the list getICD10Chapters / getICD11Chapters returned.
HandleChaptersResult(r, list) ==
    IF Len(list) = 0 THEN Return(FALSE, NoChaptersText(VersionOf(r)))
    ELSE Return(FALSE, ChaptersText(VersionOf(r), list))

\* entity.children.slice(0, 20).length
ChildCount(ent) == IF ent.children = <<>> THEN 0 ELSE Min(ent.children[1], ChildCap)

\* getICD10Code / getICD11Code has produced ent (NoEntity for null): handleLookup
\* renders it, getICD10Children / getICD11Children starts resolving its children.
AfterCode(p, ent) ==
    /\ entity' = [entity EXCEPT ![p] = ent]
    /\ IF req[p].action = "lookup"
       THEN /\ Finish(p, HandleLookupResult(req[p], ent))
            /\ UNCHANGED <<kind, err, net, idx, acc>>
       ELSE IF ~ent.found \/ ent.children = <<>> \/ ChildCount(ent) = 0
       THEN /\ Finish(p, HandleChildrenResult(req[p], <<>>))
            /\ UNCHANGED <<kind, err, net, idx, acc>>
       ELSE /\ idx' = [idx EXCEPT ![p] = 1]
            /\ CallApi(p, "child", accessToken, 0)
            /\ UNCHANGED <<acc, result>>

\* getICD10Code resumes after its apiRequest; an exception becomes null.
ICD10CodeReturn(p) ==
    /\ pc[p] = "returned" /\ kind[p] = "code10"
    /\ AfterCode(p, IF err[p] # NoError THEN NoEntity ELSE ParseEntity(body[p]))
    /\ UNCHANGED <<now, prior, clientVars, req>>

\* getICD11Code resumes after the codeinfo request: null on an exception or
\* a missing stemId, else getEntityByUri(stemId).
CodeinfoReturn(p) ==
    /\ pc[p] = "returned" /\ kind[p] = "codeinfo"
    /\ IF err[p] # NoError \/ ~body[p].stemId
       THEN AfterCode(p, NoEntity)
       ELSE /\ CallApi(p, "entity", accessToken, 0)
            /\ UNCHANGED <<entity, idx, acc, result>>
    /\ UNCHANGED <<now, prior, clientVars, req>>

\* getEntityByUri (called by getICD11Code) resumes; an exception becomes null.
EntityByUriReturn(p) ==
    /\ pc[p] = "returned" /\ kind[p] = "entity"
    /\ AfterCode(p, IF err[p] # NoError THEN NoEntity ELSE ParseEntity(body[p]))
    /\ UNCHANGED <<now, prior, clientVars, req>>

\* One iteration of the child loop of getICD10Children / getICD11Children
\* ends: getEntityByUri gave an entity (pushed) or null (skipped).
ChildReturn(p) ==
    /\ pc[p] = "returned" /\ kind[p] = "child"
    /\ LET list == IF err[p] = NoError THEN Append(acc[p], idx[p]) ELSE acc[p] IN
        /\ acc' = [acc EXCEPT ![p] = list]
        /\ IF idx[p] < ChildCount(entity[p])
           THEN /\ idx' = [idx EXCEPT ![p] = @ + 1]
                /\ CallApi(p, "child", accessToken, 0)
                /\ UNCHANGED result
           ELSE /\ Finish(p, HandleChildrenResult(req[p], list))
                /\ UNCHANGED <<kind, err, net, idx>>
    /\ UNCHANGED <<now, prior, clientVars, req, entity>>

\* getICD10Chapters / getICD11Chapters resumes after the release-root
\* request.  An exception passes through to handleAction's catch.
RootReturn(p) ==
    /\ pc[p] = "returned" /\ kind[p] = "root"
    /\ IF err[p] # NoError
       THEN /\ Finish(p, HandleActionCatch(err[p]))
            /\ UNCHANGED <<kind, err, net, entity, idx, acc>>
       ELSE IF body[p].child = <<>> \/ body[p].child = <<0>>
       THEN /\ Finish(p, HandleChaptersResult(req[p], <<>>))
            /\ UNCHANGED <<kind, err, net, entity, idx, acc>>
       ELSE /\ entity' = [entity EXCEPT ![p] = ParseEntity(body[p])]
            /\ idx' = [idx EXCEPT ![p] = 1]
            /\ CallApi(p, "chapter", accessToken, 0)
            /\ UNCHANGED <<acc, result>>
    /\ UNCHANGED <<now, prior, clientVars, req>>

\* Variant: without the try / catch in the chapter loop, a chapter that
\* fails to resolve ends the listing in handleAction's catch.
ChapterReturnAborting(p) ==
    /\ pc[p] = "returned" /\ kind[p] = "chapter"
    /\ IF err[p] # NoError
       THEN /\ Finish(p, HandleActionCatch(err[p]))
            /\ UNCHANGED <<kind, err, net, idx, acc>>
       ELSE LET list == Append(acc[p], idx[p]) IN
            /\ acc' = [acc EXCEPT ![p] = list]
            /\ IF idx[p] < entity[p].children[1]
               THEN /\ idx' = [idx EXCEPT ![p] = @ + 1]
                    /\ CallApi(p, "chapter", accessToken, 0)
                    /\ UNCHANGED result
               ELSE /\ Finish(p, HandleChaptersResult(req[p], list))
                    /\ UNCHANGED <<kind, err, net, idx>>
    /\ UNCHANGED <<now, prior, clientVars, req, entity>>

\* One iteration of the chapter loop ends: the chapter is pushed, or
\* skipped when getEntityByUri gave null.
ChapterReturn(p) ==
    /\ pc[p] = "returned" /\ kind[p] = "chapter"
    /\ LET list == IF err[p] = NoError THEN Append(acc[p], idx[p]) ELSE acc[p] IN
        /\ acc' = [acc EXCEPT ![p] = list]
        /\ IF idx[p] < entity[p].children[1]
           THEN /\ idx' = [idx EXCEPT ![p] = @ + 1]
                /\ CallApi(p, "chapter", accessToken, 0)
                /\ UNCHANGED result
           ELSE /\ Finish(p, HandleChaptersResult(req[p], list))
                /\ UNCHANGED <<kind, err, net, idx>>
    /\ UNCHANGED <<now, prior, clientVars, req, entity>>

\* Time passes.
Tick ==
    /\ now < MaxTicks * MsPerSec
    /\ now' = now + MsPerSec
    /\ UNCHANGED <<prior, clientVars, pc, callVars, handlerVars>>

\* ------------------------------------------------------- specifications
\* One tool call at a time on the client: every action of the dispatcher.
Serving == "p1"

Next ==
    \/ \E r \in Requests : Start(Serving, r)
    \/ AuthReplyOk(Serving)
    \/ AuthReplyRejected(Serving)
    \/ AuthTransportFailure(Serving)
    \/ GetReply401(Serving)
    \/ GetReplyError(Serving)
    \/ GetTransportFailure(Serving)
    \/ GetReplyOk(Serving)
    \/ ApiReturn(Serving)
    \/ SearchReturn(Serving)
    \/ ICD10CodeReturn(Serving)
    \/ CodeinfoReturn(Serving)
    \/ EntityByUriReturn(Serving)
    \/ ChildReturn(Serving)
    \/ RootReturn(Serving)
    \/ ChapterReturn(Serving)
    \/ Tick

Spec == Init /\ [][Next]_vars

\* parseEntity applied to one raw entity.
InitParse ==
    /\ accessToken = Null
    /\ tokenExpiry = 0
    /\ now = 0
    /\ issued = {}
    /\ prior = {}
    /\ pc = [p \in Procs |-> "idle"]
    /\ req = [p \in Procs |-> NoReq]
    /\ kind = [p \in Procs |-> ""]
    /\ tok = [p \in Procs |-> Undefined]
    /\ err = [p \in Procs |-> NoError]
    /\ \E b \in RawBodies : body = [p \in Procs |-> IF p = Serving THEN b ELSE NoBody]
    /\ gets = [p \in Procs |-> 0]
    /\ auths = [p \in Procs |-> 0]
    /\ cached = [p \in Procs |-> Null]
    /\ status = [p \in Procs |-> 0]
    /\ net = [p \in Procs |-> FALSE]
    /\ entity = [p \in Procs |-> NoEntity]
    /\ idx = [p \in Procs |-> 0]
    /\ acc = [p \in Procs |-> <<>>]
    /\ result = [p \in Procs |-> NoResult]

ParseStep ==
    /\ ~entity[Serving].found
    /\ entity' = [entity EXCEPT ![Serving] = ParseEntity(body[Serving])]
    /\ UNCHANGED <<now, prior, clientVars, pc, callVars, req, net, idx, acc, result>>

NextParse == ParseStep

SpecParse == InitParse /\ [][NextParse]_vars

\* Variant: one client, kept at module level, serves every /mcp request.
McpRequestSharedClient ==
    /\ \A p \in Procs : pc[p] = "idle"
    /\ prior' = prior \cup issued
    /\ issued' = {}
    /\ req' = [p \in Procs |-> NoReq]
    /\ kind' = [p \in Procs |-> ""]
    /\ err' = [p \in Procs |-> NoError]
    /\ net' = [p \in Procs |-> FALSE]
    /\ entity' = [p \in Procs |-> NoEntity]
    /\ idx' = [p \in Procs |-> 0]
    /\ acc' = [p \in Procs |-> <<>>]
    /\ result' = [p \in Procs |-> NoResult]
    /\ UNCHANGED <<now, accessToken, tokenExpiry, pc, tok, body, gets, auths, cached, status>>

\* The Worker receives a request for /mcp: createServer constructs a new
\* McpServer and a new WHOICDClient for it.  Client instances share no
\* state, so the requests are followed one after another: the tool calls
\* from here on run on the new instance.
McpRequest ==
    /\ \A p \in Procs : pc[p] = "idle"
    /\ accessToken' = Null
    /\ tokenExpiry' = 0
    /\ prior' = prior \cup issued
    /\ issued' = {}
    /\ req' = [p \in Procs |-> NoReq]
    /\ kind' = [p \in Procs |-> ""]
    /\ err' = [p \in Procs |-> NoError]
    /\ net' = [p \in Procs |-> FALSE]
    /\ entity' = [p \in Procs |-> NoEntity]
    /\ idx' = [p \in Procs |-> 0]
    /\ acc' = [p \in Procs |-> <<>>]
    /\ result' = [p \in Procs |-> NoResult]
    /\ UNCHANGED <<now, pc, tok, body, gets, auths, cached, status>>

\* Successive /mcp requests, each serving lookup and raw api tool calls.
NextMcp ==
    \/ McpRequest
    \/ \E r \in LookupRequests \cup ApiRequests : Start(Serving, r)
    \/ AuthReplyOk(Serving)
    \/ AuthReplyRejected(Serving)
    \/ AuthTransportFailure(Serving)
    \/ GetReply401(Serving)
    \/ GetReplyError(Serving)
    \/ GetTransportFailure(Serving)
    \/ GetReplyOk(Serving)
    \/ ApiReturn(Serving)
    \/ ICD10CodeReturn(Serving)
    \/ CodeinfoReturn(Serving)
    \/ EntityByUriReturn(Serving)
    \/ Tick

SpecMcp == Init /\ [][NextMcp]_vars

\* Raw `api` passthrough calls running concurrently on one client.
NextConc ==
    \/ \E p \in Procs :
        \/ \E r \in {q \in ApiRequests : Dispatch(q).call = "api"} : Start(p, r)
        \/ AuthReplyOk(p)
        \/ AuthReplyRejected(p)
        \/ AuthTransportFailure(p)
        \/ GetReply401(p)
        \/ GetReplyError(p)
        \/ GetTransportFailure(p)
        \/ GetReplyOk(p)
        \/ ApiReturn(p)
    \/ Tick

SpecConc == Init /\ [][NextConc]_vars

\* =================================================================== claims
Idle(p) == pc[p] = "idle" /\ result[p].how # "none"

\* C1: when a GET of an apiRequest call is answered 401 the client re-issues
\* it exactly once; a second 401 ends the call with an error, so that one
\* call issues at most two GETs even when every GET is answered 401.
C1_AtMostTwoGets == \A p \in Procs : gets[p] <= 2

\* C2: a request made while an unexpired token is cached performs no
\* authentication call before its GET and sends the cached token on it; a
\* request made with no cached token, or at or after the recorded expiry,
\* performs exactly one authentication call before its GET is issued.
C2_TokenReuse ==
    \A p \in Procs :
        (pc[p] # "idle" /\ gets[p] <= 1 /\ status[p] = 0) =>
            /\ cached[p] # Null => auths[p] = 0
            /\ cached[p] = Null => auths[p] = 1
            /\ (pc[p] = "get_wait" /\ cached[p] # Null) => tok[p] = cached[p]

\* A GET is in flight that carries a token cached by an earlier call, after
\* time has passed, with no authentication call made for it.
C2_Witness ==
    /\ pc["p1"] = "get_wait" /\ gets["p1"] = 1 /\ status["p1"] = 0
    /\ cached["p1"] # Null /\ tok["p1"] = cached["p1"] /\ auths["p1"] = 0
    /\ now > 0

\* C3: when requests run concurrently on one client, interleaved at their
\* network waits, every GET sent carries a token string the token endpoint
\* returned, never null: a redundant authentication is the only anomaly.
C3_GetCarriesIssuedToken == \A p \in Procs : pc[p] = "get_wait" => tok[p] \in issued

\* Two calls refresh the token at the same time, after a 401 of one of them
\* has invalidated the cached token the other had authenticated for.
C3_Witness ==
    /\ pc["p1"] = "auth_wait" /\ pc["p2"] = "auth_wait"
    /\ status["p1"] = 401 /\ status["p2"] = 0 /\ issued # {}

\* C4: handleAction never lets an exception escape: an exception that reaches
\* its try block (a missing field, a failed search or release-root request)
\* or handleApi's (a failed raw request) is returned as an error-flagged
\* result with a text block.
C4_NoEscape ==
    \A p \in Procs :
        /\ result[p].how # "throw"
        /\ (Idle(p) /\ kind[p] \in {"search", "root", "api"} /\ err[p] # NoError) =>
              result[p].isError /\ result[p].text # ""

\* A search whose upstream GET was rate limited ended as an error-flagged result.
C4_Witness ==
    /\ Idle("p1") /\ kind["p1"] = "search" /\ err["p1"] = RateLimitMsg
    /\ result["p1"].how = "return" /\ result["p1"].isError

\* The action's required field is omitted from the request.
MissingRequired(r) ==
    \/ r.action \in {"lookup", "children"} /\ r.code = Undefined
    \/ r.action = "search" /\ r.query = Undefined
    \/ r.action = "api" /\ r.path = Undefined

RequiredFieldName(r) ==
    CASE r.action \in {"lookup", "children"} -> "code"
      [] r.action = "search" -> "query"
      [] OTHER -> "path"

\* C5: a request whose required field is missing ends as an error-flagged
\* result naming the field and the action, with no outbound network call.
C5_MissingFieldRejected ==
    \A p \in Procs :
        (Idle(p) /\ MissingRequired(req[p])) =>
            /\ result[p].how = "return" /\ result[p].isError
            /\ result[p].text = "Error: " \o RequiredFieldName(req[p]) \o " required for " \o req[p].action
            /\ ~net[p]

\* A children request without a code has been rejected after an earlier
\* invocation had authenticated.
C5_Witness ==
    /\ Idle("p1") /\ req["p1"].action = "children" /\ req["p1"].code = Undefined
    /\ result["p1"].isError /\ ~net["p1"] /\ accessToken # Null

\* C6: a lookup of a code the service does not know ends as a non-error
\* result saying the code was not found and suggesting a search; a lookup
\* whose upstream call fails with 429, a 5xx or a rejected token request ends
\* as an error-flagged result.
C6_FailureIsNotNotFound ==
    \A p \in Procs :
        (Idle(p) /\ req[p].action = "lookup" /\ ~Falsy(req[p].code)) =>
            /\ (err[p] = ApiFailedMsg(404) \/ (kind[p] = "codeinfo" /\ err[p] = NoError)) =>
                  result[p] = Return(FALSE, NotFoundText(VersionOf(req[p]), req[p].code))
            /\ err[p] \in {RateLimitMsg, ApiFailedMsg(500), AuthFailedMsg} => result[p].isError

\* C7: children of a code that resolves and declares no children ends as a
\* non-error result listing zero children, and the result for a parent that
\* fails to resolve is a different one.
C7_LeafDistinctFromFailure ==
    \A p \in Procs :
        (Idle(p) /\ req[p].action = "children" /\ ~Falsy(req[p].code)) =>
            /\ (entity[p].found /\ ChildCount(entity[p]) = 0) =>
                  result[p] = Return(FALSE, NoChildrenText(req[p].code))
            /\ ~entity[p].found => result[p] # Return(FALSE, NoChildrenText(req[p].code))

\* C8: a search request with version "10" ends as an error-flagged result
\* with no outbound network call, whatever its other fields.
C8_Icd10SearchRejected ==
    \A p \in Procs :
        (Idle(p) /\ req[p].action = "search" /\ req[p].version = "10") =>
            result[p].how = "return" /\ result[p].isError /\ ~net[p]

\* A version-10 search that carries a query, a chapter and a max_results has been rejected.
C8_Witness ==
    /\ Idle("p1") /\ req["p1"].action = "search" /\ req["p1"].version = "10"
    /\ req["p1"].query = "flu" /\ req["p1"].chapter = "05" /\ req["p1"].max_results = <<1>>
    /\ result["p1"].isError /\ ~net["p1"]

\* C9 as stated: an api request whose path does not start with "/" ends as
\* an error-flagged result with the text "Path must start with /" and no
\* outbound network call.
C9_Original ==
    \A p \in Procs :
        (Idle(p) /\ req[p].action = "api" /\ req[p].path # Undefined
            /\ ~(Len(req[p].path) > 0 /\ SubSeq(req[p].path, 1, 1) = "/")) =>
            result[p] = Return(TRUE, "Path must start with /") /\ ~net[p]

\* C9 amended: an api request whose path is non-empty and does not start
\* with "/" ends as an error-flagged result with the text "Path must start
\* with /"; an empty path ends as the error-flagged result "Error: path
\* required for api"; neither makes an outbound network call.
C9_PathRejected ==
    \A p \in Procs :
        (Idle(p) /\ req[p].action = "api" /\ req[p].path # Undefined
            /\ ~(Len(req[p].path) > 0 /\ SubSeq(req[p].path, 1, 1) = "/")) =>
            /\ ~net[p]
            /\ result[p] = IF req[p].path = "" THEN Return(TRUE, "Error: path required for api")
                           ELSE Return(TRUE, "Path must start with /")

\* The api request with path "mms" has been rejected.
C9_Witness ==
    /\ Idle("p1") /\ req["p1"].action = "api" /\ req["p1"].path = "mms"
    /\ result["p1"] = Return(TRUE, "Path must start with /") /\ ~net["p1"]

\* C10: within one apiRequest call a GET is re-issued only after a 401
\* reply; a 429, another non-success status or a success ends the call at
\* once, with no further GET and no further authentication call.
C10_RetryOnlyAfter401 ==
    [][\A p \in Procs :
        /\ (pc[p] \in {"auth_wait", "get_wait"} /\ gets[p] >= 1 /\ gets'[p] = gets[p] + 1) =>
              status[p] = 401
        /\ (pc[p] = "get_wait" /\ auths'[p] = auths[p] + 1) => status'[p] = 401
        /\ (pc[p] = "get_wait" /\ pc'[p] # "get_wait" /\ status'[p] \in {200, 404, 429, 500}) =>
              pc'[p] = "returned" /\ gets'[p] = gets[p] /\ auths'[p] = auths[p]
      ]_vars

\* A call whose first GET was answered 401 re-issued it, and the 429 that
\* answered the second GET ended the call.
C10_Witness ==
    pc["p1"] = "returned" /\ gets["p1"] = 2 /\ status["p1"] = 429 /\ err["p1"] = RateLimitMsg

\* C11: for every search request and every integer max_results supplied, the
\* returned list has at most max_results entries and is the prefix, in
\* upstream order, of the hits the service returned; an omitted max_results
\* caps the list at 10.  (A negative max_results is read as allowing no entry.)
C11_AtMostMaxResults ==
    \A p \in Procs :
        (Idle(p) /\ req[p].action = "search" /\ kind[p] = "search" /\ err[p] = NoError) =>
            LET cap == IF req[p].max_results = <<>> THEN 10 ELSE req[p].max_results[1]
            IN /\ Len(acc[p]) <= Max(cap, 0)
               /\ \A i \in 1..Len(acc[p]) : acc[p][i] = i

\* C12: in a chapters listing whose release root resolves and declares the
\* child URIs c1..cn, the URIs are resolved one by one in declared order;
\* each one the service resolves (200) adds one entry to the end of the
\* list and each one that fails adds none; no failure ends the listing
\* early, and the listing ends as a non-error result built from the list.
C12_ChaptersBestEffort ==
    [][\A p \in Procs :
        /\ (pc[p] = "returned" /\ kind[p] = "root" /\ kind'[p] = "chapter") =>
              idx'[p] = 1 /\ acc'[p] = <<>>
        /\ (pc[p] = "returned" /\ kind[p] = "chapter" /\ pc'[p] # "returned") =>
              /\ acc'[p] = IF status[p] = 200 THEN Append(acc[p], idx[p]) ELSE acc[p]
              /\ IF idx[p] < entity[p].children[1]
                 THEN /\ pc'[p] \in {"auth_wait", "get_wait"}
                      /\ kind'[p] = "chapter" /\ idx'[p] = idx[p] + 1
                      /\ result'[p] = NoResult
                 ELSE /\ pc'[p] = "idle"
                      /\ result'[p].how = "return" /\ ~result'[p].isError
                      /\ result'[p].text =
                            IF acc'[p] = <<>>
                            THEN "Could not retrieve ICD-" \o VersionOf(req[p]) \o " chapters."
                            ELSE "**ICD-" \o VersionOf(req[p]) \o " Chapters:** " \o ToString(acc'[p])
      ]_vars

\* A listing of two declared chapters ended without error flag with only
\* the second chapter listed, the first having failed to resolve.
C12_Witness ==
    /\ Idle("p1") /\ req["p1"].action = "chapters" /\ kind["p1"] = "chapter"
    /\ entity["p1"].children = <<2>> /\ acc["p1"] = <<2>>
    /\ result["p1"].how = "return" /\ ~result["p1"].isError

\* C13 as stated: a title that is a plain string is kept verbatim; the
\* title {"value": "Cholera"} becomes "Cholera"; an absent title becomes
\* the empty string.
C13_Original ==
    \A p \in Procs :
        entity[p].found =>
            /\ body[p].title.type = "string" => entity[p].title = body[p].title.str
            /\ body[p].title = TitleObject(Undefined, "Cholera") => entity[p].title = "Cholera"
            /\ body[p].title.type = "undefined" => entity[p].title = ""

\* C13 amended: a title that is a plain string is kept verbatim; the title
\* {"@value": "Cholera"} becomes "Cholera", while {"value": "Cholera"}, which
\* has no "@value", becomes its JSON text; an absent title becomes the
\* empty string.
C13_TitleNormalized ==
    \A p \in Procs :
        entity[p].found =>
            /\ body[p].title.type = "string" => entity[p].title = body[p].title.str
            /\ body[p].title = TitleObject("Cholera", Undefined) => entity[p].title = "Cholera"
            /\ body[p].title = TitleObject(Undefined, "Cholera") =>
                  entity[p].title = "{\"value\":\"Cholera\"}"
            /\ body[p].title.type = "undefined" => entity[p].title = ""

\* The entity whose title is {"@value": "Cholera"} has been normalized.
C13_Witness ==
    /\ entity["p1"].found /\ body["p1"].title = TitleObject("Cholera", Undefined)
    /\ entity["p1"].title = "Cholera"

\* C14: every /mcp request is served by a new client whose token cache is
\* empty (accessToken null, tokenExpiry 0).  Until the client of the current
\* request has been given a token by the token endpoint, its cache is empty
\* and no GET has been sent
\* (the first API call is preceded by an authentication call); a token that a
\* call sends or reuses from the cache was returned to this request's client,
\* never carried over from the client of an earlier request.
C14_FreshClientPerRequest ==
    /\ issued = {} => /\ accessToken = Null /\ tokenExpiry = 0
                      /\ \A p \in Procs : pc[p] # "get_wait" /\ cached[p] = Null
    /\ accessToken # Null => accessToken \in issued
    /\ \A p \in Procs :
        /\ cached[p] # Null => cached[p] \in issued
        /\ (pc[p] = "get_wait" /\ status[p] = 0 /\ cached[p] = Null) => auths[p] = 1

\* After an earlier /mcp request had obtained a token, the second API call of
\* a lookup in the current request reuses the token its first call obtained.
C14_Witness ==
    /\ prior # {} /\ req["p1"].action = "lookup" /\ kind["p1"] = "entity"
    /\ pc["p1"] = "get_wait" /\ auths["p1"] = 0
    /\ cached["p1"] \in issued /\ tok["p1"] = cached["p1"] /\ tok["p1"] \notin prior

====
